---- MODULE Spec2Model ----
(***************************************************************************)
(* A model of remove_emojis.py (BiteTrack): the emoji pattern, the text    *)
(* cleaner remove_emojis_from_text, the per-file step                      *)
(* process_markdown_file, the tree walk find_markdown_files and the driver *)
(* main / __main__.                                                        *)
(*                                                                         *)
(* Text is a sequence of Unicode code points (integers).  A file on disk   *)
(* is the sequence of code points its UTF-8 bytes encode.                  *)
(***************************************************************************)
EXTENDS Integers, Sequences, FiniteSets, TLC

VARIABLES
    \* ---- text cleaner, exercised alone (SpecText)
    tpc,            \* "input" | "once" | "twice" ("idle" outside SpecText)
    text,           \* the argument of remove_emojis_from_text
    out1,           \* remove_emojis_from_text(text)
    out2,           \* remove_emojis_from_text(out1)
    \* ---- tree walk, exercised alone (SpecDiscover)
    dpc,            \* "tree" | "found" ("idle" outside SpecDiscover)
    root_dir,       \* the root directory, a path (sequence of names)
    tree,           \* the files under root_dir, as full paths
    exclude_dirs,   \* the set of excluded names
    found,          \* the list find_markdown_files returned
    \* ---- a run of the program (Spec)
    pc,             \* "start" | "loop" | "done" ("idle" outside Spec)
    help,           \* --help / -h was given
    dry_run,        \* --dry-run / -n was given
    disk,           \* path -> content of the file on disk
    pre,            \* disk as it was when the current run started
    markdown_files, \* main's markdown_files
    idx,            \* position of main's for loop in markdown_files (1-based)
    total_changed,  \* main's total_changed
    total_emojis,   \* main's total_emojis
    changed_files,  \* main's changed_files
    calls,          \* the calls of process_markdown_file made by this run
    message,        \* the closing line main printed
    exit_code,      \* the status handed to sys.exit, -1 while running
    prev_clean_live \* the previous run was live and no read or write failed

textVars == <<tpc, text, out1, out2>>
discVars == <<dpc, root_dir, tree, exclude_dirs, found>>
runVars  == <<pc, help, dry_run, disk, pre, markdown_files, idx, total_changed,
              total_emojis, changed_files, calls, message, exit_code,
              prev_clean_live>>
vars == <<textVars, discVars, runVars>>

----------------------------------------------------------------------------
(* Bounds *)

\* longest text given to remove_emojis_from_text in SpecText
MaxLen == 5
\* number of files of the project tree that the walk can find in Spec
NFiles == 2
\* total number of code points on disk, over all discoverable files, in Spec
MaxDiskChars == 3
\* files in a tree of SpecDiscover
MaxTreeFiles == 2
\* depth of a file below the root in SpecDiscover
MaxDepth == 2

----------------------------------------------------------------------------
(* Code points *)

\* '\n', the separator of split and join
LF == 10
\* '\r', which a text-mode read translates
CR == 13
\* ' ', the character of r' {2,}' and of ' ' * leading_spaces
SPACE == 32

\* the code points texts are built from in SpecText:
\* tab, line feed, space, "a", U+1F389 (party popper)
TextAlphabet == {9, LF, SPACE, 97, 127881}
\* the code points file contents are built from in Spec:
\* carriage return, "a", U+1F389 (party popper)
FileAlphabet == {CR, 97, 127881}

\* all texts of at most n code points of alphabet A
TextsUpTo(A, n) == UNION {[1..k -> A] : k \in 0..n}

\* EMOJI_PATTERN's character class: the union of the ranges, in source order
InEmojiClass(c) ==
    \/ c \in 127456..127487     \* 1F1E0-1F1FF
    \/ c \in 127744..128511     \* 1F300-1F5FF
    \/ c \in 128512..128591     \* 1F600-1F64F
    \/ c \in 128640..128767     \* 1F680-1F6FF
    \/ c \in 128768..128895     \* 1F700-1F77F
    \/ c \in 128896..129023     \* 1F780-1F7FF
    \/ c \in 129024..129279     \* 1F800-1F8FF
    \/ c \in 129280..129535     \* 1F900-1F9FF
    \/ c \in 129536..129647     \* 1FA00-1FA6F
    \/ c \in 129648..129791     \* 1FA70-1FAFF
    \/ c \in 9986..10160        \* 2702-27B0
    \/ c \in 9410..127569       \* 24C2-1F251
    \/ c \in 127744..128511     \* 1F300-1F5FF
    \/ c \in 128512..128566     \* 1F600-1F636
    \/ c \in 128641..128709     \* 1F681-1F6C5
    \/ c \in 127757..128359     \* 1F30D-1F567
    \/ c \in 9728..11093        \* 2600-2B55
    \/ c = 8205                 \* 200D
    \/ c = 65039                \* FE0F

\* str.isspace(): what rstrip(), lstrip() and strip() without argument remove
IsSpace(c) ==
    \/ c \in 9..13
    \/ c \in 28..32
    \/ c \in {133, 160, 5760, 8232, 8233, 8239, 8287, 12288}
    \/ c \in 8192..8202

----------------------------------------------------------------------------
(* Text cleaner *)

\* EMOJI_PATTERN.sub('', text): every match of [...]+ deleted
EmojiSub(t) == SelectSeq(t, LAMBDA c : ~InEmojiClass(c))

\* len(EMOJI_PATTERN.findall(text)): the number of maximal runs of the class
EmojiFindallCount(t) ==
    Cardinality({i \in 1..Len(t) :
        /\ InEmojiClass(t[i])
        /\ (i = 1 \/ ~InEmojiClass(t[i - 1]))})

\* str.split(sep) for a one-character sep: k separators give k + 1 pieces
RECURSIVE Split(_, _)
Split(t, sep) ==
    IF \A i \in 1..Len(t) : t[i] # sep
    THEN <<t>>
    ELSE LET k == CHOOSE i \in 1..Len(t) :
                      t[i] = sep /\ \A j \in 1..(i - 1) : t[j] # sep
         IN  <<SubSeq(t, 1, k - 1)>> \o Split(SubSeq(t, k + 1, Len(t)), sep)

\* sep.join(pieces)
RECURSIVE Join(_, _)
Join(pieces, sep) ==
    IF Len(pieces) = 0 THEN <<>>
    ELSE IF Len(pieces) = 1 THEN pieces[1]
    ELSE pieces[1] \o <<sep>> \o Join(Tail(pieces), sep)

\* number of leading whitespace code points
LeadingCount(l) ==
    IF \A i \in 1..Len(l) : IsSpace(l[i]) THEN Len(l)
    ELSE (CHOOSE i \in 1..Len(l) :
              ~IsSpace(l[i]) /\ \A j \in 1..(i - 1) : IsSpace(l[j])) - 1

\* number of trailing whitespace code points
TrailingCount(l) ==
    IF \A i \in 1..Len(l) : IsSpace(l[i]) THEN Len(l)
    ELSE Len(l) - (CHOOSE i \in 1..Len(l) :
              ~IsSpace(l[i]) /\ \A j \in (i + 1)..Len(l) : IsSpace(l[j]))

RStrip(l) == SubSeq(l, 1, Len(l) - TrailingCount(l))
LStrip(l) == SubSeq(l, LeadingCount(l) + 1, Len(l))
Strip(l) == LStrip(RStrip(l))

\* as a mutant: r' {2}' in place of r' {2,}', each pair of spaces becomes one
RECURSIVE CollapsePairs(_)
CollapsePairs(c) ==
    IF Len(c) < 2 THEN c
    ELSE IF c[1] = SPACE /\ c[2] = SPACE
         THEN <<SPACE>> \o CollapsePairs(SubSeq(c, 3, Len(c)))
         ELSE <<c[1]>> \o CollapsePairs(Tail(c))

\* re.sub(r' {2,}', ' ', content): a space that follows a space is dropped
CollapseSpaces(c) ==
    LET keep == {i \in 1..Len(c) : ~(c[i] = SPACE /\ i > 1 /\ c[i - 1] = SPACE)}
        RECURSIVE pick(_)
        pick(i) == IF i > Len(c) THEN <<>>
                   ELSE (IF i \in keep THEN <<c[i]>> ELSE <<>>) \o pick(i + 1)
    IN  pick(1)

\* ' ' * n
Spaces(n) == [i \in 1..n |-> SPACE]

\* Op(e) with e evaluated once, as an assignment to a local evaluates its
\* right-hand side once
Once(Op(_), e) == CHOOSE r \in {Op(x) : x \in {e}} : TRUE

\* the body of the for loop over the lines
NormalizeLine(l0) ==
    LET Rest(l) ==
            IF Len(Strip(l)) > 0
            THEN Spaces(Len(l) - Len(LStrip(l))) \o Once(CollapseSpaces, LStrip(l))
            ELSE l
    IN  Once(Rest, RStrip(l0))

remove_emojis_from_text(t) ==
    LET Loop(ls) == [i \in 1..Len(ls) |-> NormalizeLine(ls[i])]
        JoinLines(ls) == Join(ls, LF)
        SplitLines(cleaned) == Split(cleaned, LF)
    IN  Once(JoinLines, Once(Loop, Once(SplitLines, EmojiSub(t))))

----------------------------------------------------------------------------
(* Paths and the tree walk *)

\* A path is the sequence of its parts (Path.parts), "/" first when absolute.
\* The names the models use, in the order Python compares them (by code point).
NameOrder ==
    <<".git", ".next", "/", "BiteTrack", "CHANGELOG.md", "README.md", "a.md",
      "api.md", "b.md", "build", "coverage", "dist", "docs", "guide.md",
      "node_modules", "notes.txt", "pkg.md", "srv">>

NameRank(n) == CHOOSE i \in 1..Len(NameOrder) : NameOrder[i] = n

\* fnmatch of a name against '*.md'
MatchesMd(n) ==
    n \in {"CHANGELOG.md", "README.md", "a.md", "api.md", "b.md", "guide.md",
           "pkg.md"}

\* p < q on Path objects: the lists of parts compared lexicographically
PathLess(p, q) ==
    \E i \in 1..Len(q) :
        /\ \A j \in 1..(i - 1) : j <= Len(p) /\ p[j] = q[j]
        /\ \/ i = Len(p) + 1
           \/ i <= Len(p) /\ NameRank(p[i]) < NameRank(q[i])

\* sorted(paths) of a collection without repetition
RECURSIVE SortedPaths(_)
SortedPaths(S) ==
    IF S = {} THEN <<>>
    ELSE LET m == CHOOSE x \in S : \A y \in S \ {x} : PathLess(x, y)
         IN  <<m>> \o SortedPaths(S \ {m})

\* what lies below root: the files, and the directories that hold them
EntriesBelow(root, files) ==
    UNION {{SubSeq(f, 1, k) : k \in (Len(root) + 1)..Len(f)} : f \in files}

\* root_dir.rglob('*.md'): every entry below root, file or directory, whose
\* name matches
Rglob(root, files) ==
    {e \in EntriesBelow(root, files) : MatchesMd(e[Len(e)])}

\* any(excluded in md_file.parts for excluded in exclude_dirs)
InExcludedDir(md_file, excl) ==
    \E excluded \in excl : \E i \in 1..Len(md_file) : md_file[i] = excluded

\* the default of exclude_dirs
DefaultExcludeDirs ==
    {"node_modules", ".git", "dist", "build", ".next", "coverage"}

find_markdown_files(root, excl, files) ==
    SortedPaths({md_file \in Rglob(root, files) : ~InExcludedDir(md_file, excl)})

----------------------------------------------------------------------------
(* Files and the per-file step *)

\* open(file_path, 'r', encoding='utf-8').read(): text mode with universal
\* newlines, "\r\n" and "\r" are read as "\n"
RECURSIVE ReadText(_)
ReadText(b) ==
    IF Len(b) = 0 THEN <<>>
    ELSE IF b[1] = CR
         THEN IF Len(b) >= 2 /\ b[2] = LF
              THEN <<LF>> \o ReadText(SubSeq(b, 3, Len(b)))
              ELSE <<LF>> \o ReadText(Tail(b))
         ELSE <<b[1]>> \o ReadText(Tail(b))

\* What the operating system can answer to the write of lines 101-102 when
\* the text to write has n code points: it succeeds; open() fails and the
\* file is as it was; or open() has truncated the file and the write fails
\* with only the first k < n code points in the file.
WriteOutcomes(n) ==
    {[kind |-> "ok", kept |-> 0], [kind |-> "open_fail", kept |-> 0]}
      \cup {[kind |-> "write_fail", kept |-> k] : k \in 0..(n - 1)}

\* the call's result: the tuple returned, the file's content after the call
\* and the path taken through the function
Result(changed, emoji_count, after, io) ==
    [changed |-> changed, emoji_count |-> emoji_count, after |-> after, io |-> io]

\* as a mutant: the write is not guarded by "if not dry_run"
process_without_dry_guard(content, dry, rd, wr) ==
    IF rd = "fail" THEN Result(FALSE, 0, content, "read_error")
    ELSE LET original_content == ReadText(content)
             emoji_count == EmojiFindallCount(original_content)
             cleaned_content == remove_emojis_from_text(original_content)
         IN  IF emoji_count = 0 THEN Result(FALSE, 0, content, "no_emoji")
             ELSE IF original_content = cleaned_content
                  THEN Result(FALSE, 0, content, "same")
             ELSE IF wr.kind = "ok"
                  THEN Result(TRUE, emoji_count, cleaned_content, "written")
             ELSE IF wr.kind = "open_fail"
                  THEN Result(FALSE, 0, content, "open_error")
             ELSE Result(FALSE, 0, SubSeq(cleaned_content, 1, wr.kept), "write_error")

\* as a mutant: a failed write is not caught and the success tuple is returned
process_reporting_failed_write(content, dry, rd, wr) ==
    IF rd = "fail" THEN Result(FALSE, 0, content, "read_error")
    ELSE LET original_content == ReadText(content)
             emoji_count == EmojiFindallCount(original_content)
             cleaned_content == remove_emojis_from_text(original_content)
         IN  IF emoji_count = 0 THEN Result(FALSE, 0, content, "no_emoji")
             ELSE IF original_content = cleaned_content
                  THEN Result(FALSE, 0, content, "same")
             ELSE IF dry THEN Result(TRUE, emoji_count, content, "dry")
             ELSE IF wr.kind = "ok"
                  THEN Result(TRUE, emoji_count, cleaned_content, "written")
             ELSE IF wr.kind = "open_fail"
                  THEN Result(TRUE, emoji_count, content, "open_error")
             ELSE Result(TRUE, emoji_count, SubSeq(cleaned_content, 1, wr.kept),
                         "write_error")

\* as a mutant: the except clause returns the count it has
process_keeping_count_on_error(content, dry, rd, wr) ==
    IF rd = "fail" THEN Result(FALSE, 0, content, "read_error")
    ELSE LET original_content == ReadText(content)
             emoji_count == EmojiFindallCount(original_content)
             cleaned_content == remove_emojis_from_text(original_content)
         IN  IF emoji_count = 0 THEN Result(FALSE, 0, content, "no_emoji")
             ELSE IF original_content = cleaned_content
                  THEN Result(FALSE, 0, content, "same")
             ELSE IF dry THEN Result(TRUE, emoji_count, content, "dry")
             ELSE IF wr.kind = "ok"
                  THEN Result(TRUE, emoji_count, cleaned_content, "written")
             ELSE IF wr.kind = "open_fail"
                  THEN Result(FALSE, emoji_count, content, "open_error")
             ELSE Result(FALSE, emoji_count, SubSeq(cleaned_content, 1, wr.kept),
                         "write_error")

\* process_markdown_file on a file holding `content`, the read answering rd
\* ("ok" or "fail": missing permission, bytes that are not UTF-8, I/O error)
\* and the write, when one is made, answering wr.  os.linesep is "\n", so the
\* write stores the text as it is.
process_markdown_file(content, dry, rd, wr) ==
    IF rd = "fail" THEN Result(FALSE, 0, content, "read_error")
    ELSE LET original_content == ReadText(content)
             emoji_count == EmojiFindallCount(original_content)
             cleaned_content == remove_emojis_from_text(original_content)
         IN  IF emoji_count = 0 THEN Result(FALSE, 0, content, "no_emoji")
             ELSE IF original_content = cleaned_content
                  THEN Result(FALSE, 0, content, "same")
             ELSE IF dry THEN Result(TRUE, emoji_count, content, "dry")
             ELSE IF wr.kind = "ok"
                  THEN Result(TRUE, emoji_count, cleaned_content, "written")
             ELSE IF wr.kind = "open_fail"
                  THEN Result(FALSE, 0, content, "open_error")
             ELSE Result(FALSE, 0, SubSeq(cleaned_content, 1, wr.kept), "write_error")

\* the text process_markdown_file would write for a file holding `content`
CleanedOf(content) == remove_emojis_from_text(ReadText(content))

----------------------------------------------------------------------------
(* The parts of the state a specification does not use *)

InitDiscIdle ==
    /\ dpc = "idle" /\ root_dir = <<>> /\ tree = {} /\ exclude_dirs = {}
    /\ found = <<>>

InitRunIdle ==
    /\ pc = "idle" /\ help = FALSE /\ dry_run = FALSE /\ disk = <<>>
    /\ pre = <<>> /\ markdown_files = <<>> /\ idx = 0 /\ total_changed = 0
    /\ total_emojis = 0 /\ changed_files = <<>> /\ calls = <<>>
    /\ message = "" /\ exit_code = -1 /\ prev_clean_live = FALSE

InitTextIdle ==
    /\ tpc = "idle" /\ text = <<>> /\ out1 = <<>> /\ out2 = <<>>

----------------------------------------------------------------------------
(* The driver: __main__ and main *)

\* Path(__file__).parent
project_root == <<"/", "srv", "BiteTrack">>

\* md_file.relative_to(project_root)
RelativeTo(path, root) == SubSeq(path, Len(root) + 1, Len(path))

\* the closing line of main, lines 190-198
ClosingLine(dry, changed_count) ==
    IF dry /\ changed_count > 0
    THEN "NOTE: This was a dry run. Run without --dry-run to apply changes."
    ELSE IF changed_count > 0
    THEN "SUCCESS: All emojis have been removed from documentation files."
    ELSE "INFO: No emojis found in documentation files."

\* as a mutant: the two statuses exchanged
ExitStatusInverted(changed_count) == IF changed_count > 0 THEN 1 ELSE 0

\* return 0 if total_changed > 0 else 1
ExitStatus(changed_count) == IF changed_count > 0 THEN 0 ELSE 1

\* "--help" or "-h" is among the arguments: usage is printed, sys.exit(0),
\* main is not called
HelpExit ==
    /\ pc = "start"
    /\ help' = TRUE
    /\ exit_code' = 0
    /\ pc' = "done"
    /\ UNCHANGED <<dry_run, disk, pre, markdown_files, idx, total_changed,
                   total_emojis, changed_files, calls, message, prev_clean_live>>
    /\ UNCHANGED <<textVars, discVars>>

\* main up to its for loop, with or without --dry-run.  (--verbose changes
\* only which lines are printed.)
MainBegin ==
    /\ pc = "start"
    /\ \E d \in BOOLEAN : dry_run' = d
    /\ help' = FALSE
    /\ markdown_files' =
         find_markdown_files(project_root, DefaultExcludeDirs, DOMAIN disk)
    /\ total_changed' = 0
    /\ total_emojis' = 0
    /\ changed_files' = <<>>
    /\ idx' = 1
    /\ pc' = "loop"
    /\ UNCHANGED <<disk, pre, calls, message, exit_code, prev_clean_live>>
    /\ UNCHANGED <<textVars, discVars>>

\* one iteration of the for loop of main
MainLoop ==
    /\ pc = "loop"
    /\ idx <= Len(markdown_files)
    /\ LET md_file == markdown_files[idx]
           rel_path == RelativeTo(md_file, project_root)
       IN  \E rd \in {"ok", "fail"} :
           \E wr \in WriteOutcomes(Len(CleanedOf(disk[md_file]))) :
             LET r == process_markdown_file(disk[md_file], dry_run, rd, wr)
             IN  /\ disk' = [disk EXCEPT ![md_file] = r.after]
                 /\ total_changed' = IF r.changed THEN total_changed + 1
                                      ELSE total_changed
                 /\ total_emojis' = IF r.changed THEN total_emojis + r.emoji_count
                                     ELSE total_emojis
                 /\ changed_files' =
                      IF r.changed
                      THEN Append(changed_files, <<rel_path, r.emoji_count>>)
                      ELSE changed_files
                 /\ calls' = Append(calls,
                      [path |-> md_file, before |-> disk[md_file],
                       after |-> r.after, changed |-> r.changed,
                       emoji_count |-> r.emoji_count, io |-> r.io])
    /\ idx' = idx + 1
    /\ UNCHANGED <<pc, help, dry_run, pre, markdown_files, message, exit_code,
                   prev_clean_live>>
    /\ UNCHANGED <<textVars, discVars>>

\* main after the loop: the summary, the closing line and the return value,
\* which __main__ hands to sys.exit
MainSummary ==
    /\ pc = "loop"
    /\ idx > Len(markdown_files)
    /\ message' = ClosingLine(dry_run, total_changed)
    /\ exit_code' = ExitStatus(total_changed)
    /\ pc' = "done"
    /\ UNCHANGED <<help, dry_run, disk, pre, markdown_files, idx, total_changed,
                   total_emojis, changed_files, calls, prev_clean_live>>
    /\ UNCHANGED <<textVars, discVars>>

\* the calls of this run that ended in the except clause
FailedCalls == {i \in 1..Len(calls) :
                  calls[i].io \in {"read_error", "open_error", "write_error"}}

\* the program is started again on the tree as the last run left it
RunAgain ==
    /\ pc = "done"
    /\ pc' = "start"
    /\ prev_clean_live' = IF help THEN prev_clean_live
                          ELSE ~dry_run /\ FailedCalls = {}
    /\ pre' = disk
    /\ help' = FALSE
    /\ dry_run' = FALSE
    /\ markdown_files' = <<>>
    /\ idx' = 0
    /\ total_changed' = 0
    /\ total_emojis' = 0
    /\ changed_files' = <<>>
    /\ calls' = <<>>
    /\ message' = ""
    /\ exit_code' = -1
    /\ UNCHANGED disk
    /\ UNCHANGED <<textVars, discVars>>

\* the steps of one run
RunStep == HelpExit \/ MainBegin \/ MainLoop \/ MainSummary

\* the .md files of the project that lie outside the excluded directories
CandidateFiles ==
    << <<"docs", "guide.md">>, <<"README.md">>, <<"docs", "api.md">>,
       <<"CHANGELOG.md">> >>

NCandidates == IF NFiles < Len(CandidateFiles) THEN NFiles ELSE Len(CandidateFiles)

\* a .md file of an installed package, which holds an emoji
PackageFile == project_root \o <<"node_modules", "pkg.md">>

\* the contents of n files that hold at most budget code points together
RECURSIVE ContentLists(_, _)
ContentLists(n, budget) ==
    IF n = 0 THEN {<<>>}
    ELSE UNION {{<<t>> \o rest : rest \in ContentLists(n - 1, budget - Len(t))} :
                  t \in TextsUpTo(FileAlphabet, budget)}

Init ==
    /\ pc = "start"
    /\ help = FALSE
    /\ dry_run = FALSE
    /\ \E cs \in ContentLists(NCandidates, MaxDiskChars) :
         disk = [p \in {project_root \o CandidateFiles[i] : i \in 1..NCandidates}
                         \cup {PackageFile} |->
                   IF p = PackageFile THEN <<127881>>
                   ELSE cs[CHOOSE i \in 1..NCandidates :
                               p = project_root \o CandidateFiles[i]]]
    /\ pre = disk
    /\ markdown_files = <<>>
    /\ idx = 0
    /\ total_changed = 0
    /\ total_emojis = 0
    /\ changed_files = <<>>
    /\ calls = <<>>
    /\ message = ""
    /\ exit_code = -1
    /\ prev_clean_live = FALSE
    /\ InitTextIdle
    /\ InitDiscIdle

Next == HelpExit \/ MainBegin \/ MainLoop \/ MainSummary \/ RunAgain

Spec == Init /\ [][Next]_vars

\* The program is sequential and nothing in it waits: a run that has a step
\* to take takes it.
FairSpec == Spec /\ WF_vars(RunStep)

----------------------------------------------------------------------------
(* The tree walk alone: a tree, a root and a set of excluded names *)

\* the names of the files and directories of the trees
TreeNames == {"a.md", "b.md", "docs", "node_modules", "notes.txt"}

\* where the root can lie
Roots == {<<"/", "srv">>, <<"/", "build">>}

\* the sets of excluded names: the default, and two of a caller's
ExcludeChoices == {DefaultExcludeDirs, {"docs"}, {"a.md"}}

\* the subsets of S of at most k elements
RECURSIVE SubsetsUpTo(_, _)
SubsetsUpTo(S, k) ==
    IF k = 0 THEN {{}}
    ELSE LET smaller == SubsetsUpTo(S, k - 1)
         IN  smaller \cup {T \cup {x} : T \in smaller, x \in S}

\* p is a directory on the way to q
ProperPrefix(p, q) == Len(p) < Len(q) /\ SubSeq(q, 1, Len(p)) = p

\* the trees below root: sets of files, none of them in the place of a
\* directory that holds another
TreesBelow(root) ==
    LET rels == UNION {[1..k -> TreeNames] : k \in 1..MaxDepth}
    IN  {T \in SubsetsUpTo({root \o r : r \in rels}, MaxTreeFiles) :
           \A p \in T : \A q \in T : ~ProperPrefix(p, q)}

InitDiscover ==
    /\ dpc = "tree"
    /\ root_dir \in Roots
    /\ tree \in TreesBelow(root_dir)
    /\ exclude_dirs \in ExcludeChoices
    /\ found = <<>>
    /\ InitTextIdle
    /\ InitRunIdle

Discover ==
    /\ dpc = "tree"
    /\ found' = find_markdown_files(root_dir, exclude_dirs, tree)
    /\ dpc' = "found"
    /\ UNCHANGED <<root_dir, tree, exclude_dirs, textVars, runVars>>

NextDiscover == Discover

SpecDiscover == InitDiscover /\ [][NextDiscover]_vars

----------------------------------------------------------------------------
(* The text cleaner alone: a text, cleaned once, cleaned again *)

InitText ==
    /\ tpc = "input"
    /\ text \in TextsUpTo(TextAlphabet, MaxLen)
    /\ out1 = <<>>
    /\ out2 = <<>>
    /\ InitDiscIdle
    /\ InitRunIdle

CleanOnce ==
    /\ tpc = "input"
    /\ out1' = remove_emojis_from_text(text)
    /\ tpc' = "once"
    /\ UNCHANGED <<text, out2, discVars, runVars>>

CleanAgain ==
    /\ tpc = "once"
    /\ out2' = remove_emojis_from_text(out1)
    /\ tpc' = "twice"
    /\ UNCHANGED <<text, out1, discVars, runVars>>

NextText == CleanOnce \/ CleanAgain

SpecText == InitText /\ [][NextText]_vars

----------------------------------------------------------------------------
(* Properties of the text cleaner (SpecText) *)

\* the lines of a text
Lines(t) == Split(t, LF)

\* no two neighbouring spaces after the leading whitespace of line l
NoSpaceRunAfterIndent(l) ==
    \A i \in (LeadingCount(l) + 1)..(Len(l) - 1) :
        ~(l[i] = SPACE /\ l[i + 1] = SPACE)

Indentation(l) == SubSeq(l, 1, LeadingCount(l))

\* C7: for every line that is not blank, the indentation of the cleaned line
\* is, code point for code point, the indentation the line has once the
\* emoji runs are deleted, and the rest of the line is that line's rest with
\* its trailing whitespace stripped and every run of spaces made one space.
C7_IndentationPreserved ==
    tpc \in {"once", "twice"} =>
        LET src == Lines(EmojiSub(text))
            dst == Lines(out1)
        IN  /\ Len(dst) = Len(src)
            /\ \A k \in 1..Len(src) :
                 Len(Strip(src[k])) > 0 =>
                   /\ Indentation(dst[k]) = Indentation(src[k])
                   /\ LStrip(dst[k]) = CollapseSpaces(Strip(src[k]))

\* what the cleaner does keep of the indentation: its length
C7_IndentationLengthKept ==
    tpc \in {"once", "twice"} =>
        LET src == Lines(EmojiSub(text))
            dst == Lines(out1)
        IN  /\ Len(dst) = Len(src)
            /\ \A k \in 1..Len(src) :
                 Len(Strip(src[k])) > 0 =>
                   /\ Indentation(dst[k]) = Spaces(LeadingCount(src[k]))
                   /\ LStrip(dst[k]) = CollapseSpaces(Strip(src[k]))

----------------------------------------------------------------------------
(* Properties of the tree walk (SpecDiscover) *)

\* the list has its paths in strictly increasing order: sorted, none twice
StrictlySorted(paths) ==
    \A i \in 1..(Len(paths) - 1) : PathLess(paths[i], paths[i + 1])

\* the names of the directories between root and the file f
AncestorNames(root, f) == {f[i] : i \in (Len(root) + 1)..(Len(f) - 1)}

\* C6: the walk returns, in lexicographic order and none twice, exactly the
\* .md files below the root that have no ancestor directory named in
\* exclude_dirs; a file is left out for the name of a directory above it
\* only; nothing below a directory node_modules is returned.
C6_DiscoverExact ==
    dpc = "found" =>
        /\ StrictlySorted(found)
        /\ {found[i] : i \in 1..Len(found)} =
             {f \in tree : /\ MatchesMd(f[Len(f)])
                           /\ AncestorNames(root_dir, f) \cap exclude_dirs = {}}
        /\ \A i \in 1..Len(found) :
             "node_modules" \notin AncestorNames(root_dir, found[i])

----------------------------------------------------------------------------
(* Properties of a run (Spec) *)

\* main has been entered by the current run
InMain == pc \in {"loop", "done"} /\ ~help

\* the files main's list holds
Listed == {markdown_files[i] : i \in 1..Len(markdown_files)}

\* the text has an emoji run
HasEmoji(t) == EmojiFindallCount(t) > 0

\* file f had its emoji content removed by this run
Removed(f) == HasEmoji(ReadText(pre[f])) /\ disk[f] = CleanedOf(pre[f])

\* file f, read by this run, holds emoji content for a live run to remove
WouldBeRemoved(f) ==
    /\ HasEmoji(ReadText(pre[f]))
    /\ \E i \in 1..Len(calls) : calls[i].path = f /\ calls[i].io # "read_error"

\* C1: a run ends with status 0 exactly when at least one listed file had
\* its emoji content removed (under --dry-run: would have it removed), and
\* with 1 otherwise, so with 1 when no listed file holds an emoji; --help
\* ends with 0 and no file is looked for, read or written.
C1_ExitCodePolicy ==
    pc = "done" =>
        IF help
        THEN exit_code = 0 /\ markdown_files = <<>> /\ calls = <<>> /\ disk = pre
        ELSE /\ exit_code \in {0, 1}
             /\ exit_code = 0 <=>
                  \E f \in Listed : IF dry_run THEN WouldBeRemoved(f) ELSE Removed(f)
             /\ (\A f \in Listed : ~HasEmoji(ReadText(pre[f]))) => exit_code = 1

\* a live run that cleaned one file and found nothing in the other
C1_Witness ==
    /\ pc = "done" /\ ~help /\ ~dry_run /\ exit_code = 0
    /\ Len(calls) = 2
    /\ \E i, j \in 1..2 : calls[i].io = "written" /\ calls[j].io = "no_emoji"

\* the tuple a live call returns for a file holding `content`
LiveRecord(content, rd, wr) ==
    LET r == process_markdown_file(content, FALSE, rd, wr)
    IN  <<r.changed, r.emoji_count>>

\* how the read of call c went
ReadOf(c) == IF c.io = "read_error" THEN "fail" ELSE "ok"

\* C2, as claimed: a dry run writes nothing, every file is on disk as it
\* was, and the tuple each dry call returns is the tuple a live call
\* returns for the same content, however the live call's write goes.
C2_DryRunAsLive ==
    (InMain /\ dry_run) =>
        /\ disk = pre
        /\ \A i \in 1..Len(calls) :
             /\ calls[i].after = calls[i].before
             /\ \A wr \in WriteOutcomes(Len(CleanedOf(calls[i].before))) :
                  LiveRecord(calls[i].before, ReadOf(calls[i]), wr)
                    = <<calls[i].changed, calls[i].emoji_count>>

\* C2, amended: a dry run writes nothing, every file is on disk as it was,
\* and the tuple each dry call returns is the tuple a live call returns for
\* the same content and the same outcome of the read when the live call's
\* write succeeds.
C2_DryRunAsLiveWhenWritten ==
    (InMain /\ dry_run) =>
        /\ disk = pre
        /\ \A i \in 1..Len(calls) :
             /\ calls[i].after = calls[i].before
             /\ LiveRecord(calls[i].before, ReadOf(calls[i]),
                           [kind |-> "ok", kept |-> 0])
                  = <<calls[i].changed, calls[i].emoji_count>>

\* a dry run over a file with an emoji run has ended, reporting the file
C2_Witness ==
    /\ pc = "done" /\ ~help /\ dry_run
    /\ \E i \in 1..Len(calls) :
         calls[i].changed /\ calls[i].emoji_count > 0 /\ HasEmoji(calls[i].before)

\* the sum of the emoji counts of the calls numbered in I
RECURSIVE SumCounts(_)
SumCounts(I) ==
    IF I = {} THEN 0
    ELSE LET i == CHOOSE x \in I : TRUE
         IN  calls[i].emoji_count + SumCounts(I \ {i})

\* what holds of main's loop at every step, whichever reads and writes fail
C3_Isolated ==
    InMain =>
       /\ markdown_files =
            find_markdown_files(project_root, DefaultExcludeDirs, DOMAIN disk)
       /\ StrictlySorted(markdown_files)
       /\ Len(calls) = idx - 1
       /\ idx <= Len(markdown_files) + 1
       /\ \A i \in 1..Len(calls) : calls[i].path = markdown_files[i]
       /\ \A i \in FailedCalls : ~calls[i].changed /\ calls[i].emoji_count = 0
       /\ total_changed =
            Cardinality({i \in 1..Len(calls) \ FailedCalls : calls[i].changed})
       /\ total_emojis = SumCounts(1..Len(calls) \ FailedCalls)
       /\ \A i \in FailedCalls : \A k \in 1..Len(changed_files) :
            changed_files[k][1] # RelativeTo(calls[i].path, project_root)
       /\ pc = "done" =>
            /\ Len(calls) = Len(markdown_files)
            /\ message # ""
            /\ exit_code \in {0, 1}
            /\ FailedCalls = 1..Len(calls) => total_changed = 0

RunTerminates == (pc = "start") ~> (pc = "done")

C5_RecordAgrees ==
    \A i \in 1..Len(calls) :
        /\ calls[i].changed = FALSE <=> calls[i].emoji_count = 0
        /\ calls[i].changed = TRUE <=> calls[i].emoji_count > 0

\* a run has had a call that wrote and a call whose write failed
C5_Witness ==
    /\ Len(calls) = 2
    /\ calls[1].io = "written" /\ calls[1].changed
    /\ calls[2].io = "write_error" /\ ~calls[2].changed

\* C8: when a live run ends with the SUCCESS line, no listed file holds a
\* code point of the emoji class on disk.
C8_SuccessMeansClean ==
    ( /\ pc = "done" /\ ~help /\ ~dry_run
      /\ message = "SUCCESS: All emojis have been removed from documentation files." )
    => \A f \in Listed : \A i \in 1..Len(disk[f]) : ~InEmojiClass(disk[f][i])

\* C9: after a live run in which no read or write failed, every listed file
\* holds the cleaned form of what it held before if that had an emoji run,
\* and what it held before otherwise; and a run that follows such a run
\* finds no emoji run in any file, writes nothing, reports no changed file
\* and ends with status 1.
C9_FixedPoint ==
    /\ (pc = "done" /\ ~help /\ ~dry_run /\ FailedCalls = {}) =>
         \A f \in Listed :
           disk[f] = IF HasEmoji(pre[f]) THEN remove_emojis_from_text(pre[f])
                     ELSE pre[f]
    /\ (prev_clean_live /\ InMain) =>
         /\ \A f \in Listed : ~HasEmoji(ReadText(pre[f]))
         /\ \A i \in 1..Len(calls) : ~calls[i].changed /\ calls[i].emoji_count = 0
         /\ disk = pre
         /\ total_changed = 0
         /\ pc = "done" => exit_code = 1

\* C9 with the read taken into account: the file holds the cleaned form of
\* the text read from it, in which "\r\n" and "\r" have become "\n"
C9_FixedPointOfTextRead ==
    /\ (pc = "done" /\ ~help /\ ~dry_run /\ FailedCalls = {}) =>
         \A f \in Listed :
           disk[f] = IF HasEmoji(ReadText(pre[f])) THEN CleanedOf(pre[f])
                     ELSE pre[f]
    /\ (prev_clean_live /\ InMain) =>
         /\ \A f \in Listed : ~HasEmoji(ReadText(pre[f]))
         /\ \A i \in 1..Len(calls) : ~calls[i].changed /\ calls[i].emoji_count = 0
         /\ disk = pre
         /\ total_changed = 0
         /\ pc = "done" => exit_code = 1

\* C10: whenever process_markdown_file returns changed = False, the file is
\* on disk as it was before the call.
C10_UnchangedMeansUntouched ==
    \A i \in 1..Len(calls) :
        ~calls[i].changed => calls[i].after = calls[i].before

====
